---- MODULE Spec2Model ----
(***************************************************************************)
(* Model of the CSV-to-SQLite loader: checkDatabaseConnection,             *)
(* retryOperation, processCSVStream and main.                              *)
(*                                                                         *)
(* One run of main is one behaviour of Spec.  The rows a file yields, the  *)
(* outcome of every storage call and the outcome of every file read are    *)
(* chosen by the environment.  RetrySpec exercises retryOperation around   *)
(* the insertion transaction for every maxRetries in 0..MaxRetriesArg.     *)
(***************************************************************************)
EXTENDS Integers, Sequences, FiniteSets, TLC

\* ------------------------------------------------------------------ bounds
\* Distinct primary-key values that records of the input files may carry.
NumKeys == 2
\* Largest number of records one input file holds.
MaxBatch == 2
\* Largest number of empty lines one input file holds.
MaxEmptyLines == 1
\* Largest number of rows a table holds before the run starts.
MaxPreRows == 1
\* Largest maxRetries argument tried in RetrySpec.
MaxRetriesArg == 3
\* The interval of the progress log, `totalInserted % 1000 === 0'.  The
\* Batches of the model hold at most MaxBatch records, so the interval is
\* scaled down with them; the test itself is the code's.
ProgressEvery == 2

\* ------------------------------------------------------ program constants
\* retryOperation's default for maxRetries.
DefaultMaxRetries == 5
\* Number of (file, table) pairs main ingests: customers, organizations.
NumFiles == 2
\* retryOperation's default for delayMs.
DefaultDelayMs == 1000

Keys == 1..NumKeys
Tables == {"customers", "organizations"}

\* The table named in main's i-th call of processCSVStream.
TableOf(f) == IF f = 1 THEN "customers" ELSE "organizations"

\* Error values.  Busy is the error whose code is 'SQLITE_BUSY'; Constraint
\* and IoError stand for errors with any other code; ExhaustedError is the
\* Error(`Operation failed after N attempts`) built at the end of
\* retryOperation; ParseError is what the csv parser emits.
NoError == "none"
Busy == "SQLITE_BUSY"
Constraint == "SQLITE_CONSTRAINT"
IoError == "SQLITE_IOERR"
ExhaustedError == "OperationFailedAfter"
ParseError == "ParseError"
StorageErrors == {Busy, Constraint, IoError}

\* The value of `reported' while no 'Finished inserting' line was logged.
NotReported == 0 - 1

\* Sequences of keys of length at most n.
SeqsUpTo(n) == UNION {[1..k -> Keys] : k \in 0..n}
\* The elements of a sequence.
Range(s) == {s[i] : i \in 1..Len(s)}
\* Sequences that hold no key twice (the primary key of a table is unique).
NoDuplicates(s) == Cardinality(Range(s)) = Len(s)
\* The rows 1, ..., n: a table that holds n rows before the run.  Key values
\* are interchangeable and every table has a key column of its own, so which
\* n keys a table holds is immaterial.
PreRows(n) == [i \in 1..n |-> i]
\* The tables' possible contents before the run.
InitialTables == [Tables -> {PreRows(n) : n \in 0..MaxPreRows}]
\* The Batches a file can yield.
Batches == SeqsUpTo(MaxBatch)

VARIABLES
  pc,              \* position of the run
  connected,       \* result of checkDatabaseConnection: "unknown", "yes", "no"
  fileIdx,         \* 0 before any ingestion, else the file being (or last) ingested
  records,         \* processCSVStream's records array
  emptyLines,      \* empty lines the parser skipped in the current file
  totalInserted,   \* processCSVStream's totalInserted counter
  reported,        \* N of the 'Finished inserting N records' line, or NotReported
  maxRetries,      \* retryOperation's maxRetries argument
  attempt,         \* retryOperation's loop variable
  pos,             \* number of records the transaction handler has iterated over
  trx,             \* rows written inside the open transaction, not yet committed
  trxOpen,         \* whether a transaction is open
  table,           \* committed rows of each table, in insertion order
  tableAtCall,     \* target table's rows when retryOperation was called
  tableAtAttempt,  \* target table's rows when the current attempt began
  execCount,       \* executions of the operation in the current retryOperation call
  busyFails,       \* executions of the current call that failed with Busy
  delays,          \* delay(delayMs) waits started in the current call
  lastErr,         \* error of the latest failed attempt of the current call
  error,           \* error that rejected the current processCSVStream promise
  mainError,       \* error caught by main's catch block
  failedFile,      \* 0, or the index of the file whose ingestion failed
  ingested,        \* indices of the files whose processCSVStream promise resolved
  touched,         \* tables on which a transaction was opened
  countQueries,    \* verification count queries issued
  destroyed,       \* number of db.destroy() calls
  dataLines,       \* non-empty data lines the parser read in the current file
  progressAt,      \* the current transaction's insert counts at which progress was logged
  waits,           \* durations of the delay() waits of the current retryOperation call
  initTable,       \* rows of each table before the run
  batches          \* the Batch committed for each file, <<>> while none is

vars == <<pc, connected, fileIdx, records, emptyLines, totalInserted, reported,
          maxRetries, attempt, pos, trx, trxOpen, table, tableAtCall,
          tableAtAttempt, execCount, busyFails, delays, lastErr, error,
          mainError, failedFile, ingested, touched, countQueries, destroyed,
          dataLines, progressAt, waits, initTable, batches>>

\* Groups of variables, for UNCHANGED.
mainVars == <<connected, mainError, countQueries, destroyed>>
fileVars == <<fileIdx, records, emptyLines>>
retryVars == <<maxRetries, attempt, execCount, busyFails, delays, lastErr>>
dbVars == <<trx, trxOpen, table, tableAtCall, tableAtAttempt, touched, pos>>
resultVars == <<totalInserted, reported, error, failedFile, ingested>>

TypeOK ==
  /\ pc \in {"check", "reading", "call", "loop", "trx", "delay", "resolved",
             "rejected", "count_customers", "count_organizations", "finally",
             "closed", "crashed"}
  /\ connected \in {"unknown", "yes", "no"}
  /\ fileIdx \in 0..NumFiles
  /\ records \in Batches
  /\ emptyLines \in 0..MaxEmptyLines
  /\ totalInserted \in Nat
  /\ reported \in Nat \cup {NotReported}
  /\ maxRetries \in Nat
  /\ attempt \in Nat
  /\ pos \in 0..MaxBatch
  /\ trx \in Seq(Keys)
  /\ trxOpen \in BOOLEAN
  /\ DOMAIN table = Tables
  /\ execCount \in Nat /\ busyFails \in Nat /\ delays \in Nat
  /\ lastErr \in StorageErrors \cup {NoError}
  /\ error \in StorageErrors \cup {NoError, ExhaustedError, ParseError}
  /\ mainError \in StorageErrors \cup {NoError, ExhaustedError, ParseError}
  /\ failedFile \in 0..NumFiles
  /\ ingested \subseteq 1..NumFiles
  /\ touched \subseteq Tables
  /\ countQueries \in 0..2
  /\ destroyed \in Nat
  /\ dataLines \in 0..MaxBatch
  /\ progressAt \subseteq 1..MaxBatch
  /\ waits \in Seq(Nat)
  /\ initTable \in InitialTables
  /\ batches \in [1..NumFiles -> Batches]

\* State right after module load: db is constructed, main has not run.
Init ==
  /\ pc = "check"
  /\ connected = "unknown"
  /\ fileIdx = 0
  /\ records = <<>>
  /\ emptyLines = 0
  /\ totalInserted = 0
  /\ reported = NotReported
  /\ maxRetries = DefaultMaxRetries
  /\ attempt = 0
  /\ pos = 0
  /\ trx = <<>>
  /\ trxOpen = FALSE
  /\ table \in InitialTables
  /\ tableAtCall = <<>>
  /\ tableAtAttempt = <<>>
  /\ execCount = 0
  /\ busyFails = 0
  /\ delays = 0
  /\ lastErr = NoError
  /\ error = NoError
  /\ mainError = NoError
  /\ failedFile = 0
  /\ ingested = {}
  /\ touched = {}
  /\ countQueries = 0
  /\ destroyed = 0
  /\ dataLines = 0
  /\ progressAt = {}
  /\ waits = <<>>
  /\ initTable = table
  /\ batches = [f \in 1..NumFiles |-> <<>>]

\* ------------------------------------------------- the storage collaborator
\* What db.transaction leaves in the table when its handler rejects: the
\* transaction is rolled back, so the rows written inside it are dropped.
RollbackKeepsPrefix(rows, written) == rows \o written
Rollback(rows, written) == rows

\* What db.transaction leaves in the table when its handler resolves.
CommitRows(rows, written) == rows \o written

\* Whether inserting key k violates the table's primary key: the key is
\* already committed, or already written inside the open transaction.
Duplicate(rows, written, k) == k \in Range(rows) \cup Range(written)

\* ---------------------------------------------------------- retryOperation
\* The catch block's test: wait and go round the loop again, or rethrow.
ShouldRetryOnLast(code, att, max) == code = Busy /\ att <= max
ShouldRetryTooFew(code, att, max) == code = Busy /\ att < max - 1
ShouldRetryAnyError(code, att, max) == att < max
ShouldRetry(code, att, max) == code = Busy /\ att < max

\* How long the wait after the failed attempt att lasts: delay(delayMs), the
\* same on every attempt.
DelayForExponential(ms, att) == ms * (2 ^ (att - 1))
DelayFor(ms, att) == ms

\* Where `for (const record of records)' starts in each execution of the
\* transaction handler: at the first record, whatever was inserted before.
IterationStartResumed(total, len) == IF total < len THEN total ELSE len
IterationStart(total, len) == 0

\* Entry of retryOperation: `let attempt = 1'.  The counters of the call
\* (execCount, busyFails, delays, lastErr) are observers and start afresh.
\* (RetryOperationEnterShared is the variant with a counter shared by all
\* calls, which RetryBound rejects.)
RetryOperationEnterShared ==
  /\ pc = "call"
  /\ pc' = "loop"
  /\ attempt' = IF attempt = 0 THEN 1 ELSE attempt
  /\ execCount' = 0 /\ busyFails' = 0 /\ delays' = 0 /\ lastErr' = NoError
  /\ waits' = <<>>
  /\ tableAtCall' = table[TableOf(fileIdx)]
  /\ UNCHANGED <<dataLines, progressAt, initTable, batches>>
  /\ UNCHANGED <<mainVars, fileVars, resultVars, maxRetries, trx, trxOpen,
                 table, tableAtAttempt, touched, pos>>
RetryOperationEnter ==
  /\ pc = "call"
  /\ pc' = "loop"
  /\ attempt' = 1
  /\ execCount' = 0 /\ busyFails' = 0 /\ delays' = 0 /\ lastErr' = NoError
  /\ waits' = <<>>
  /\ tableAtCall' = table[TableOf(fileIdx)]
  /\ UNCHANGED <<dataLines, progressAt, initTable, batches>>
  /\ UNCHANGED <<mainVars, fileVars, resultVars, maxRetries, trx, trxOpen,
                 table, tableAtAttempt, touched, pos>>

\* Loop test passes: the operation is executed, db.transaction opens a
\* transaction and calls the handler, which starts iterating over records.
RetryAttempt ==
  /\ pc = "loop"
  /\ attempt <= maxRetries
  /\ pc' = "trx"
  /\ execCount' = execCount + 1
  /\ trxOpen' = TRUE
  /\ trx' = <<>>
  /\ pos' = IterationStart(totalInserted, Len(records))
  /\ tableAtAttempt' = table[TableOf(fileIdx)]
  /\ touched' = touched \cup {TableOf(fileIdx)}
  /\ progressAt' = {}
  /\ UNCHANGED <<dataLines, waits, initTable, batches>>
  /\ UNCHANGED <<mainVars, fileVars, resultVars, maxRetries, attempt,
                 busyFails, delays, lastErr, table, tableAtCall>>

\* Loop test fails: the throw after the loop.
RetryExhausted ==
  /\ pc = "loop"
  /\ attempt > maxRetries
  /\ pc' = "rejected"
  /\ error' = ExhaustedError
  /\ failedFile' = fileIdx
  /\ UNCHANGED <<dataLines, progressAt, waits, initTable, batches>>
  /\ UNCHANGED <<mainVars, fileVars, retryVars, dbVars, totalInserted,
                 reported, ingested>>

\* The record `for (const record of records)' yields after p records: the
\* array is iterated in the order the 'data' events pushed it.
RecordAtReversed(recs, p) == recs[Len(recs) - p]
RecordAt(recs, p) == recs[p + 1]

\* The test of the progress log, on the value of totalInserted after the
\* increment.
IsMilestone(total) == total % ProgressEvery = 0

\* One `await trx(tableName).insert(record)' that succeeds; totalInserted is
\* incremented and the progress line is logged when the test passes.
InsertOk ==
  /\ pc = "trx"
  /\ pos < Len(records)
  /\ ~Duplicate(table[TableOf(fileIdx)], trx, RecordAt(records, pos))
  /\ trx' = Append(trx, RecordAt(records, pos))
  /\ pos' = pos + 1
  /\ totalInserted' = totalInserted + 1
  /\ progressAt' = IF IsMilestone(totalInserted + 1)
                     THEN progressAt \cup {pos + 1}
                     ELSE progressAt
  /\ UNCHANGED <<dataLines, waits, initTable, batches>>
  /\ UNCHANGED <<pc, mainVars, fileVars, retryVars, trxOpen, table,
                 tableAtCall, tableAtAttempt, touched, reported, error,
                 failedFile, ingested>>

\* The errors the insert of key k can fail with.
InsertErrors(rows, written, k) ==
  IF Duplicate(rows, written, k) THEN {Busy, Constraint, IoError}
                                 ELSE {Busy, IoError}

\* One insert that fails: the handler rejects, db.transaction rolls back and
\* rejects, and retryOperation's catch block either waits or rethrows; the
\* rethrown error rejects the processCSVStream promise.
InsertFailRollbackPending ==
  /\ pc = "trx"
  /\ pos < Len(records)
  /\ \E code \in InsertErrors(table[TableOf(fileIdx)], trx, RecordAt(records, pos)) :
       /\ lastErr' = code
       /\ busyFails' = IF code = Busy THEN busyFails + 1 ELSE busyFails
       /\ IF ShouldRetry(code, attempt, maxRetries)
            THEN /\ pc' = "delay"
                 /\ delays' = delays + 1
                 /\ waits' = Append(waits, DelayFor(DefaultDelayMs, attempt))
                 /\ UNCHANGED <<error, failedFile>>
            ELSE /\ pc' = "rejected"
                 /\ error' = code
                 /\ failedFile' = fileIdx
                 /\ UNCHANGED <<delays, waits>>
  /\ table' = [table EXCEPT ![TableOf(fileIdx)] = Rollback(@, trx)]
  /\ trx' = <<>>
  /\ trxOpen' = TRUE
  /\ UNCHANGED <<dataLines, progressAt, initTable, batches>>
  /\ UNCHANGED <<mainVars, fileVars, maxRetries, attempt, execCount,
                 tableAtCall, tableAtAttempt, touched, pos, totalInserted,
                 reported, ingested>>
InsertFail ==
  /\ pc = "trx"
  /\ pos < Len(records)
  /\ \E code \in InsertErrors(table[TableOf(fileIdx)], trx, RecordAt(records, pos)) :
       /\ lastErr' = code
       /\ busyFails' = IF code = Busy THEN busyFails + 1 ELSE busyFails
       /\ IF ShouldRetry(code, attempt, maxRetries)
            THEN /\ pc' = "delay"
                 /\ delays' = delays + 1
                 /\ waits' = Append(waits, DelayFor(DefaultDelayMs, attempt))
                 /\ UNCHANGED <<error, failedFile>>
            ELSE /\ pc' = "rejected"
                 /\ error' = code
                 /\ failedFile' = fileIdx
                 /\ UNCHANGED <<delays, waits>>
  /\ table' = [table EXCEPT ![TableOf(fileIdx)] = Rollback(@, trx)]
  /\ trx' = <<>>
  /\ trxOpen' = FALSE
  /\ UNCHANGED <<dataLines, progressAt, initTable, batches>>
  /\ UNCHANGED <<mainVars, fileVars, maxRetries, attempt, execCount,
                 tableAtCall, tableAtAttempt, touched, pos, totalInserted,
                 reported, ingested>>

\* delay(delayMs) elapses: attempt++ and back to the loop test.
DelayElapsed ==
  /\ pc = "delay"
  /\ pc' = "loop"
  /\ attempt' = attempt + 1
  /\ UNCHANGED <<dataLines, progressAt, waits, initTable, batches>>
  /\ UNCHANGED <<mainVars, fileVars, resultVars, dbVars, maxRetries,
                 execCount, busyFails, delays, lastErr>>

\* The handler has inserted every record: db.transaction commits, the
\* operation and retryOperation return, 'Finished inserting' is logged and
\* the processCSVStream promise resolves.
Commit ==
  /\ pc = "trx"
  /\ pos = Len(records)
  /\ pc' = "resolved"
  /\ table' = [table EXCEPT ![TableOf(fileIdx)] = CommitRows(@, trx)]
  /\ trx' = <<>>
  /\ trxOpen' = FALSE
  /\ reported' = totalInserted
  /\ ingested' = ingested \cup {fileIdx}
  /\ batches' = [batches EXCEPT ![fileIdx] = records]
  /\ UNCHANGED <<dataLines, progressAt, waits, initTable>>
  /\ UNCHANGED <<mainVars, fileVars, retryVars, tableAtCall, tableAtAttempt,
                 touched, pos, totalInserted, error, failedFile>>

\* -------------------------------------------------------- processCSVStream
\* Call of processCSVStream for file f: the promise executor creates the
\* parser, the empty records array and totalInserted = 0, and opens the file.
StartFile(f) ==
  /\ pc' = "reading"
  /\ fileIdx' = f
  /\ records' = <<>>
  /\ emptyLines' = 0
  /\ totalInserted' = 0
  /\ reported' = NotReported
  /\ error' = NoError
  /\ dataLines' = 0

\* 'data': the parser produced a record from a non-empty line.
OnDataStreaming ==
  /\ pc = "reading"
  /\ Len(records) < MaxBatch
  /\ \E k \in Keys : records' = Append(records, k)
  /\ dataLines' = dataLines + 1
  /\ touched' = touched \cup {TableOf(fileIdx)}
  /\ totalInserted' = totalInserted + 1
  /\ UNCHANGED <<progressAt, waits, initTable, batches>>
  /\ UNCHANGED <<pc, mainVars, fileIdx, emptyLines, retryVars, trx, trxOpen,
                 table, tableAtCall, tableAtAttempt, pos, reported, error,
                 failedFile, ingested>>
OnData ==
  /\ pc = "reading"
  /\ Len(records) < MaxBatch
  /\ \E k \in Keys : records' = Append(records, k)
  /\ dataLines' = dataLines + 1
  /\ UNCHANGED <<progressAt, waits, initTable, batches>>
  /\ UNCHANGED <<pc, mainVars, fileIdx, emptyLines, retryVars, dbVars,
                 resultVars>>

\* skip_empty_lines: an empty line produces no 'data' event.
EmptyLineAsRecord ==
  /\ pc = "reading"
  /\ emptyLines < MaxEmptyLines
  /\ emptyLines' = emptyLines + 1
  /\ \E k \in Keys : records' = Append(records, k)
  /\ UNCHANGED <<dataLines, progressAt, waits, initTable, batches>>
  /\ UNCHANGED <<pc, mainVars, fileIdx, retryVars, dbVars, resultVars>>
SkipEmptyLine ==
  /\ pc = "reading"
  /\ emptyLines < MaxEmptyLines
  /\ emptyLines' = emptyLines + 1
  /\ UNCHANGED <<dataLines, progressAt, waits, initTable, batches>>
  /\ UNCHANGED <<pc, mainVars, fileIdx, records, retryVars, dbVars,
                 resultVars>>

\* 'error' on the parser (a malformed line): the promise is rejected.
OnParserError ==
  /\ pc = "reading"
  /\ pc' = "rejected"
  /\ error' = ParseError
  /\ failedFile' = fileIdx
  /\ UNCHANGED <<dataLines, progressAt, waits, initTable, batches>>
  /\ UNCHANGED <<mainVars, fileVars, retryVars, dbVars, totalInserted,
                 reported, ingested>>

\* 'error' on the stream createReadStream returned (the file cannot be opened
\* or read).  pipe() does not forward it to the parser and the stream itself
\* has no 'error' listener, so the event is thrown as an uncaught exception
\* and the process ends there: the promise is never settled.
ReadStreamError ==
  /\ pc = "reading"
  /\ pc' = "crashed"
  /\ failedFile' = fileIdx
  /\ UNCHANGED <<dataLines, progressAt, waits, initTable, batches>>
  /\ UNCHANGED <<mainVars, fileVars, retryVars, dbVars, totalInserted,
                 reported, error, ingested>>

\* 'end': the whole file was parsed; the handler calls retryOperation.
OnEnd ==
  /\ pc = "reading"
  /\ pc' = "call"
  /\ UNCHANGED <<dataLines, progressAt, waits, initTable, batches>>
  /\ UNCHANGED <<mainVars, fileVars, retryVars, dbVars, resultVars>>

\* ------------------------------------------- checkDatabaseConnection, main
\* db.raw('SELECT 1') resolves: isConnected is true and main goes on to
\* processCSVStream(customers.csv, 'customers').
MainConnected ==
  /\ pc = "check"
  /\ connected' = "yes"
  /\ StartFile(1)
  /\ UNCHANGED <<progressAt, waits, initTable, batches>>
  /\ UNCHANGED <<mainError, countQueries, destroyed, retryVars, dbVars,
                 failedFile, ingested>>

\* db.raw('SELECT 1') rejects: checkDatabaseConnection catches the error and
\* returns false; main returns, which runs its finally block.
MainNotConnectedNoReturn ==
  /\ pc = "check"
  /\ connected' = "no"
  /\ StartFile(1)
  /\ UNCHANGED <<progressAt, waits, initTable, batches>>
  /\ UNCHANGED <<mainError, countQueries, destroyed, retryVars, dbVars,
                 failedFile, ingested>>
MainNotConnected ==
  /\ pc = "check"
  /\ connected' = "no"
  /\ pc' = "finally"
  /\ UNCHANGED <<dataLines, progressAt, waits, initTable, batches>>
  /\ UNCHANGED <<mainError, countQueries, destroyed, fileVars, retryVars,
                 dbVars, resultVars>>

\* The customers promise resolved: main calls
\* processCSVStream(organizations.csv, 'organizations').
MainSkipOrganizations ==
  /\ pc = "resolved"
  /\ fileIdx = 1
  /\ pc' = "count_customers"
  /\ countQueries' = 1
  /\ UNCHANGED <<dataLines, progressAt, waits, initTable, batches>>
  /\ UNCHANGED <<connected, mainError, destroyed, fileVars, retryVars,
                 dbVars, resultVars>>
MainStartOrganizations ==
  /\ pc = "resolved"
  /\ fileIdx = 1
  /\ StartFile(2)
  /\ UNCHANGED <<progressAt, waits, initTable, batches>>
  /\ UNCHANGED <<mainVars, retryVars, dbVars, failedFile, ingested>>

\* The organizations promise resolved: main issues the customers count.
MainStartVerify ==
  /\ pc = "resolved"
  /\ fileIdx = NumFiles
  /\ pc' = "count_customers"
  /\ countQueries' = 1
  /\ UNCHANGED <<dataLines, progressAt, waits, initTable, batches>>
  /\ UNCHANGED <<connected, mainError, destroyed, fileVars, retryVars,
                 dbVars, resultVars>>

\* The customers count resolved: main issues the organizations count.
MainCountCustomers ==
  /\ pc = "count_customers"
  /\ pc' = "count_organizations"
  /\ countQueries' = 2
  /\ UNCHANGED <<dataLines, progressAt, waits, initTable, batches>>
  /\ UNCHANGED <<connected, mainError, destroyed, fileVars, retryVars,
                 dbVars, resultVars>>

\* The organizations count resolved: both counts are logged and the try
\* block ends.
MainCountOrganizations ==
  /\ pc = "count_organizations"
  /\ pc' = "finally"
  /\ UNCHANGED <<dataLines, progressAt, waits, initTable, batches>>
  /\ UNCHANGED <<mainVars, fileVars, retryVars, dbVars, resultVars>>

\* A count query rejects (it is not wrapped in retryOperation): main's catch
\* block logs the error.
MainCountFail ==
  /\ pc \in {"count_customers", "count_organizations"}
  /\ \E code \in {Busy, IoError} : mainError' = code
  /\ pc' = "finally"
  /\ UNCHANGED <<dataLines, progressAt, waits, initTable, batches>>
  /\ UNCHANGED <<connected, countQueries, destroyed, fileVars, retryVars,
                 dbVars, resultVars>>

\* A processCSVStream promise rejected: main's catch block logs the error.
MainCatch ==
  /\ pc = "rejected"
  /\ pc' = "finally"
  /\ mainError' = error
  /\ UNCHANGED <<dataLines, progressAt, waits, initTable, batches>>
  /\ UNCHANGED <<connected, countQueries, destroyed, fileVars, retryVars,
                 dbVars, resultVars>>

\* The finally block: await db.destroy().
MainFinally ==
  /\ pc = "finally"
  /\ pc' = "closed"
  /\ destroyed' = destroyed + 1
  /\ UNCHANGED <<dataLines, progressAt, waits, initTable, batches>>
  /\ UNCHANGED <<connected, mainError, countQueries, fileVars, retryVars,
                 dbVars, resultVars>>

\* ----------------------------------------------------------- specifications
\* One run of main.  With maxRetries = 5 the loop test of retryOperation
\* never fails, so RetryExhausted is no step of a run.
Next ==
  \/ MainConnected
  \/ MainNotConnected
  \/ OnData
  \/ SkipEmptyLine
  \/ OnParserError
  \/ ReadStreamError
  \/ OnEnd
  \/ RetryOperationEnter
  \/ RetryAttempt
  \/ InsertOk
  \/ InsertFail
  \/ DelayElapsed
  \/ Commit
  \/ MainStartOrganizations
  \/ MainStartVerify
  \/ MainCountCustomers
  \/ MainCountOrganizations
  \/ MainCountFail
  \/ MainCatch
  \/ MainFinally

Spec == Init /\ [][Next]_vars

\* The event loop runs every pending callback: a run never stops while a
\* step is possible.
FairSpec == Spec /\ WF_vars(Next)

\* retryOperation around the insertion transaction, for every maxRetries
\* argument and every Batch: the state at the 'end' event of the customers
\* file, the organizations table (which these calls never touch) still empty.
RetryInit ==
  /\ pc = "call"
  /\ connected = "yes"
  /\ fileIdx = 1
  /\ records \in Batches
  /\ emptyLines = 0
  /\ totalInserted = 0
  /\ reported = NotReported
  /\ maxRetries \in 0..MaxRetriesArg
  /\ attempt = 0
  /\ pos = 0
  /\ trx = <<>>
  /\ trxOpen = FALSE
  /\ table \in {t \in InitialTables : t["organizations"] = <<>>}
  /\ tableAtCall = <<>>
  /\ tableAtAttempt = <<>>
  /\ execCount = 0
  /\ busyFails = 0
  /\ delays = 0
  /\ lastErr = NoError
  /\ error = NoError
  /\ mainError = NoError
  /\ failedFile = 0
  /\ ingested = {}
  /\ touched = {}
  /\ countQueries = 0
  /\ destroyed = 0
  /\ dataLines = 0
  /\ progressAt = {}
  /\ waits = <<>>
  /\ initTable = table
  /\ batches = [f \in 1..NumFiles |-> <<>>]

\* The next call of retryOperation, by the next processCSVStream: a new
\* records array and totalInserted, the previous call's frame is gone and
\* the observers of that call start afresh.
RetryNextCall ==
  /\ pc \in {"resolved", "rejected"}
  /\ pc' = "call"
  /\ records' \in Batches
  /\ maxRetries' \in 0..MaxRetriesArg
  /\ totalInserted' = 0
  /\ reported' = NotReported
  /\ error' = NoError
  /\ progressAt' = {}
  /\ waits' = <<>>
  /\ batches' = [f \in 1..NumFiles |-> <<>>]
  /\ UNCHANGED <<dataLines, initTable>>
  /\ UNCHANGED <<mainVars, fileIdx, emptyLines, attempt, execCount, busyFails,
                 delays, lastErr, dbVars, failedFile, ingested>>

RetryNext ==
  \/ RetryOperationEnter
  \/ RetryAttempt
  \/ RetryExhausted
  \/ InsertOk
  \/ InsertFail
  \/ DelayElapsed
  \/ Commit
  \/ RetryNextCall

RetrySpec == RetryInit /\ [][RetryNext]_vars

\* ------------------------------------------------------------------ claims
\* The run has ended: main returned after its finally block, or the process
\* was ended by an uncaught exception.
RunEnded == pc \in {"closed", "crashed"}

\* C1: atomicity of the insertion.  In the step in which an attempt's insert
\* fails, whatever the error and however many records the attempt had already
\* inserted, the target table is left with exactly the rows it held when the
\* attempt began, and while a transaction is open none of its rows is
\* visible in the table.
AtomicInsertion ==
  [][/\ (pc = "trx" /\ pc' \in {"delay", "rejected"})
          => /\ table'[TableOf(fileIdx)] = tableAtAttempt
             /\ trx' = <<>> /\ ~trxOpen'
     /\ (pc' = "trx") => table'[TableOf(fileIdx')] = tableAtAttempt']_vars

\* A failed attempt that had inserted a record into a non-empty table.
AtomicInsertionWitness ==
  /\ pc \in {"delay", "rejected"}
  /\ lastErr # NoError
  /\ totalInserted > 0
  /\ tableAtAttempt # <<>>
  /\ table[TableOf(fileIdx)] = tableAtAttempt

\* C2: every run of main, however it ends, has released the connection
\* exactly once when it has ended, and never releases it twice.
ConnectionReleasedOnce ==
  /\ destroyed <= 1
  /\ RunEnded => destroyed = 1

\* C3: retry bound.  The operation is never executed more than maxRetries
\* times; a call with maxRetries >= 1 all of whose executions failed with
\* SQLITE_BUSY has executed it exactly maxRetries times when it throws; and
\* the attempt counter counts the executions of this call alone, so it is 1
\* at the first loop test of every call.
RetryBound ==
  /\ pc # "call" => execCount <= maxRetries
  /\ (pc = "rejected" /\ maxRetries >= 1 /\ busyFails = execCount)
       => execCount = maxRetries
  /\ pc = "loop" => attempt = execCount + 1
  /\ pc \in {"trx", "delay"} => attempt = execCount

\* A call with maxRetries >= 2 that followed an earlier call and threw after
\* maxRetries executions that all failed with SQLITE_BUSY.
RetryBoundWitness ==
  /\ pc = "rejected"
  /\ maxRetries >= 2
  /\ busyFails = maxRetries
  /\ execCount = maxRetries
  /\ Len(table["customers"]) > MaxPreRows

\* C4: when all maxRetries executions failed with SQLITE_BUSY, the error the
\* caller receives is the final 'Operation failed after N attempts' error.
ExhaustedErrorDelivered ==
  (pc = "rejected" /\ maxRetries >= 1 /\ busyFails = maxRetries)
    => error = ExhaustedError

\* C5: a failure with an error other than SQLITE_BUSY, on the first or on a
\* later attempt, ends the call: that same error rejects the promise, no wait
\* follows it (every wait of the call followed a SQLITE_BUSY failure) and the
\* operation is not executed again.
NonTransientBypass ==
  lastErr \notin {NoError, Busy}
    => /\ pc \in {"rejected", "finally", "closed"}
       /\ error = lastErr
       /\ execCount = attempt
       /\ delays = busyFails
       /\ busyFails = attempt - 1

\* A constraint violation on the third attempt, after two transient failures.
NonTransientBypassWitness ==
  /\ pc = "rejected"
  /\ lastErr = Constraint
  /\ error = Constraint
  /\ attempt = 3
  /\ busyFails = 2

\* C6: idempotent retry.  When the transaction commits, on whatever attempt,
\* the target table is the table as it was at the call followed by every
\* record of the Batch once, in order: what a commit on attempt 1 leaves.
IdempotentRetry ==
  pc = "resolved"
    => /\ table[TableOf(fileIdx)] = tableAtCall \o records
       /\ NoDuplicates(table[TableOf(fileIdx)])

\* A commit on the third attempt, after two transient failures that had each
\* inserted a record of a two-record Batch (scenario C).
IdempotentRetryWitness ==
  /\ pc = "resolved"
  /\ execCount = 3
  /\ busyFails = 2
  /\ Len(records) = 2
  /\ totalInserted = 4
  /\ table[TableOf(fileIdx)] = tableAtCall \o records

\* C7: once the customers ingestion has failed, the organizations ingestion
\* is never started, no transaction is opened on the organizations table, no
\* count query is issued, and the run is in its catch/finally path.
AbortOnFirstFailedFile ==
  failedFile = 1
    => /\ fileIdx = 1
       /\ "organizations" \notin touched
       /\ countQueries = 0
       /\ pc \in {"rejected", "finally", "closed"}

\* C8: once the liveness probe has failed, no file is read, no transaction is
\* opened, no count query is issued, main's catch block is not entered, and
\* the run either has released the connection, once, or is at its finally
\* block with the release as its next step.
ConnectivityFailure ==
  connected = "no"
    => /\ fileIdx = 0
       /\ records = <<>>
       /\ touched = {}
       /\ trx = <<>> /\ ~trxOpen
       /\ countQueries = 0
       /\ error = NoError /\ mainError = NoError
       /\ \/ pc = "closed" /\ destroyed = 1
          \/ pc = "finally" /\ destroyed = 0 /\ ENABLED MainFinally

\* A run that ended after a failed probe.
ConnectivityFailureWitness ==
  /\ connected = "no"
  /\ pc = "closed"
  /\ destroyed = 1
  /\ fileIdx = 0

\* C9: ordering across phases.  customers is ingested before organizations,
\* the organizations ingestion starts only after the customers transaction
\* has committed, and a count query is issued only after both ingestions
\* have resolved.
PhaseOrdering ==
  /\ fileIdx >= 1 => connected = "yes"
  /\ fileIdx = 2 => 1 \in ingested
  /\ "organizations" \in touched => ("customers" \in touched /\ 1 \in ingested)
  /\ 2 \in ingested => 1 \in ingested
  /\ countQueries > 0 => ingested = {1, 2}
  /\ pc \in {"count_customers", "count_organizations"} => ingested = {1, 2}

\* Both count queries were issued, after both files' rows were committed.
PhaseOrderingWitness ==
  /\ countQueries = 2
  /\ ingested = {1, 2}
  /\ Len(table["customers"]) > MaxPreRows
  /\ Len(table["organizations"]) > MaxPreRows

\* C10: when an ingestion resolves, the count in 'Finished inserting N
\* records' is the number of Records of the Batch, which is the number of
\* rows the call added to the table.
ReportedCount ==
  pc = "resolved"
    => /\ reported = Len(records)
       /\ Len(table[TableOf(fileIdx)]) - Len(tableAtCall) = Len(records)

\* C11: order preservation.  Inside a transaction the rows written so far
\* are the first pos records of the Batch, in the Batch's order, and a step
\* that stays inside the transaction writes exactly the next record; a table
\* whose file was ingested holds its earlier rows followed by the Batch in
\* its original sequence.
OrderPreservation ==
  [][/\ pc' = "trx" => (pos' <= Len(records') /\ trx' = SubSeq(records', 1, pos'))
     /\ (pc = "trx" /\ pc' = "trx")
          => (pos' = pos + 1 /\ trx' = Append(trx, records[pos + 1]))
     /\ \A f \in ingested' :
          table'[TableOf(f)] = initTable'[TableOf(f)] \o batches'[f]]_vars

\* A committed two-record Batch whose keys are not in ascending order.
OrderPreservationWitness ==
  /\ pc = "resolved"
  /\ Len(records) = 2
  /\ records[1] > records[2]
  /\ table[TableOf(fileIdx)] = initTable[TableOf(fileIdx)] \o records

\* C12: empty lines yield no Record.  The records array holds one Record
\* per non-empty data line read, whatever number of empty lines was read, and
\* when the ingestion resolves the rows it added to the table are as many as
\* the non-empty data lines of the file.
EmptyLinesYieldNoRecord ==
  /\ Len(records) = dataLines
  /\ pc = "resolved"
       => Len(table[TableOf(fileIdx)]) - Len(initTable[TableOf(fileIdx)])
            = dataLines

\* A file with two data lines and an empty line, committed to an empty table
\* as two rows.
EmptyLinesYieldNoRecordWitness ==
  /\ pc = "resolved"
  /\ emptyLines = 1
  /\ dataLines = 2
  /\ initTable[TableOf(fileIdx)] = <<>>
  /\ Len(table[TableOf(fileIdx)]) = 2

\* C13: read fully, then write fully.  While a file is being read no
\* transaction is open, none was opened on the file's table and nothing was
\* inserted; once the parser has signalled the end, the records array holds
\* one Record per data line and never changes while it is inserted; and
\* after a parse error nothing was ever inserted for that file.
ReadFullyThenWriteFully ==
  [][/\ pc' = "reading"
          => /\ ~trxOpen' /\ trx' = <<>>
             /\ TableOf(fileIdx') \notin touched'
             /\ totalInserted' = 0
     /\ pc' \in {"call", "loop", "trx", "delay"}
          => /\ records' = records
             /\ Len(records') = dataLines'
     /\ error' = ParseError
          => /\ TableOf(failedFile') \notin touched'
             /\ totalInserted' = 0
             /\ table'[TableOf(failedFile')] = initTable'[TableOf(failedFile')]]_vars

\* The second record of the organizations Batch is about to be inserted,
\* after two data lines and an empty line were read.
ReadFullyThenWriteFullyWitness ==
  /\ pc = "trx"
  /\ fileIdx = 2
  /\ dataLines = 2
  /\ emptyLines = 1
  /\ pos = 1

\* C14: row-source failures propagate.  Once the ingestion of a file has
\* failed while the file was opened, read or parsed (that is, not with an
\* error of the insertion), the promise was rejected with the error and the
\* run is in main's catch/finally path, where main's catch block receives
\* that error.
RowSourceFailuresPropagate ==
  (failedFile # 0 /\ error \notin StorageErrors \cup {ExhaustedError})
    => /\ error = ParseError
       /\ pc \in {"rejected", "finally", "closed"}
       /\ pc \in {"finally", "closed"} => mainError = error

\* C15: a SQLITE_BUSY error reaches main's catch block only as the error of
\* a retryOperation call all of whose maxRetries executions failed with
\* SQLITE_BUSY.
TransientLocksInvisible ==
  mainError = Busy
    => /\ error = Busy
       /\ busyFails = maxRetries
       /\ execCount = maxRetries

\* C16: progress milestones.  In every attempt, the insert counts of the
\* transaction at which a progress line was logged are exactly the positive
\* multiples of the interval reached so far.
ProgressMilestones ==
  progressAt = {i \in 1..pos : i % ProgressEvery = 0}

\* C17: isolation of earlier files.  Once the organizations ingestion has
\* failed, however it failed, the customers table holds its earlier rows
\* followed by the complete customers Batch, the organizations table is as
\* it was before the run, and no transaction is left open.
IsolationOfEarlierFiles ==
  failedFile = 2
    => /\ 1 \in ingested /\ 2 \notin ingested
       /\ table["customers"] = initTable["customers"] \o batches[1]
       /\ table["organizations"] = initTable["organizations"]
       /\ trx = <<>> /\ ~trxOpen

\* The organizations ingestion failed on a constraint violation after it had
\* inserted a record, with a customers Batch committed before.
IsolationOfEarlierFilesWitness ==
  /\ failedFile = 2
  /\ lastErr = Constraint
  /\ totalInserted >= 1
  /\ batches[1] # <<>>
  /\ pc = "closed"

\* C18: no overlapping work.  An attempt opens its transaction only at the
\* loop test, with no transaction open and every wait of the call elapsed
\* (one per earlier attempt); a transaction is open only while its handler
\* runs; and a file's ingestion starts only with no transaction open, after
\* the probe or after the previous file's promise resolved.
NoOverlappingWork ==
  [][/\ execCount' = execCount + 1
          => /\ pc = "loop"
             /\ ~trxOpen /\ trx = <<>>
             /\ delays = execCount
             /\ Len(waits) = execCount
     /\ trxOpen' => pc' = "trx"
     /\ fileIdx' # fileIdx
          => /\ fileIdx' = fileIdx + 1
             /\ ~trxOpen
             /\ pc \in {"check", "resolved"}
             /\ fileIdx = 1 => 1 \in ingested]_vars

\* The third attempt of the organizations ingestion is inserting.
NoOverlappingWorkWitness ==
  /\ pc = "trx"
  /\ fileIdx = 2
  /\ execCount = 3
  /\ delays = 2
  /\ trxOpen

====
